---- MODULE Spec2Model ----
(***************************************************************************)
(* concordia/utils/concurrency.py: the `executor` context manager and      *)
(* `run_parallel`, together with the parts of concurrent.futures they      *)
(* drive (ThreadPoolExecutor.submit / _adjust_thread_count / shutdown, the *)
(* _worker loop, _WorkItem.run, Future.cancel, Executor.map).              *)
(*                                                                         *)
(* One behaviour is one use of the module by a caller thread: either a     *)
(* call run_parallel(fn, s1, s2, timeout=..., max_workers=...)             *)
(* (mode = "map"), or a direct `with executor(max_workers=...) as ex:`     *)
(* whose block submits fn over zip(s1, s2) and then either ends or raises  *)
(* (mode = "scope").  The worker threads of the pool run concurrently      *)
(* with the caller.                                                        *)
(***************************************************************************)
EXTENDS Integers, Sequences, FiniteSets, TLC

\* ---- bounds of the model --------------------------------------------------
MaxLen == 2          \* longest argument sequence
MaxWorkers == 2      \* largest explicit max_workers
MaxCalls == 2        \* calls the caller makes one after the other

\* ---- values ---------------------------------------------------------------
NoneVal == -1        \* Python's None for max_workers
BadArg == 1          \* the first-sequence element on which fn raises
Vals == {0, BadArg}  \* elements of the first argument sequence

NoExc == [type |-> "none", a |-> 0, b |-> 0]
ValueError == [type |-> "ValueError", a |-> 0, b |-> 0]
TimeoutError == [type |-> "TimeoutError", a |-> 0, b |-> 0]
BlockError == [type |-> "BlockError", a |-> 0, b |-> 0]
SecondaryError == [type |-> "SecondaryError", a |-> 0, b |-> 0]
FnError(a, b) == [type |-> "FnError", a |-> a, b |-> b]

\* The work-queue wake-up item (None in ThreadPoolExecutor's queue).
Sentinel == [future |-> 0, a |-> 0, b |-> 0]

\* fn: a pure function of one element of each sequence; it raises on BadArg.
fn(a, b) ==
    IF a = BadArg
    THEN [ok |-> FALSE, result |-> 0, exception |-> FnError(a, b)]
    ELSE [ok |-> TRUE, result |-> 10 * b + a + 1, exception |-> NoExc]

Min(x, y) == IF x <= y THEN x ELSE y

\* zip(*args): truncated to the shortest sequence.
ZipLen(seqs) == Min(Len(seqs[1]), Len(seqs[2]))

\* All sequences over S of length 0..n.
SeqsUpTo(S, n) == UNION {[1..k -> S] : k \in 0..n}

\* The second argument sequence carries its own position: <<1, 2, ..., k>>.
Tagged(k) == [i \in 1..k |-> i]

VARIABLES
    mode,           \* "map": run_parallel; "scope": a bare executor() block
    args,           \* <<s1, s2>>: the argument sequences
    timeout,        \* TRUE iff a timeout was given
    max_workers_arg,\* the max_workers keyword as the caller passed it
    calls,          \* how many run_parallel calls the caller has made
    previous,       \* what the caller's previous call returned, and how it ran
    max_workers,    \* the max_workers argument (NoneVal when unset)
    pc,             \* position of the caller thread
    fs,             \* the futures, in submission order (Executor.map's fs)
    popped,         \* number of futures the result iterator has popped
    results,        \* list(results) as built so far
    exc,            \* the exception travelling out of the with-block
    raised,         \* the exception the caller of the module receives
    work_queue,     \* ThreadPoolExecutor._work_queue
    threads,        \* ThreadPoolExecutor._threads, in creation order
    idle_semaphore, \* ThreadPoolExecutor._idle_semaphore
    shutdown_flag,  \* ThreadPoolExecutor._shutdown
    expired,        \* time.monotonic() has passed end_time
    shutdowns,      \* history: the shutdown calls made on the pool
    completed       \* history: the futures in the order their fn ended

vars == <<mode, args, timeout, max_workers_arg, calls, previous, max_workers, pc, fs, popped, results, exc,
          raised, work_queue, threads, idle_semaphore, shutdown_flag,
          expired, shutdowns, completed>>

\* ---- futures --------------------------------------------------------------
NewFuture == [state |-> "PENDING", result |-> 0, exception |-> NoExc]

Done(f) == f.state = "FINISHED"
Failed(f) == f.state = "FINISHED" /\ f.exception # NoExc
Succeeded(f) == f.state = "FINISHED" /\ f.exception = NoExc

\* Future.cancel(): only a PENDING future changes state.
Cancel(f) == IF f.state = "PENDING" THEN [f EXCEPT !.state = "CANCELLED"] ELSE f

\* Future.set_result / Future.set_exception, from the outcome of fn.
SetOutcome(f, o) ==
    [state |-> "FINISHED", result |-> o.result, exception |-> o.exception]

Futures == DOMAIN fs
Running == {u \in Futures : fs[u].state = "RUNNING"}
Unfinished == {u \in Futures : fs[u].state \in {"PENDING", "RUNNING"}}
Threads == DOMAIN threads
Live == {t \in Threads : threads[t].pc # "exited"}

\* ---- inputs ---------------------------------------------------------------
Init ==
    /\ mode \in {"map", "scope"}
    /\ args \in {<<s1, Tagged(k)>> : s1 \in SeqsUpTo(Vals, MaxLen), k \in 0..MaxLen}
    /\ timeout \in (IF mode = "map" THEN BOOLEAN ELSE {FALSE})
    /\ max_workers \in (IF mode = "map" THEN {NoneVal} ELSE {}) \cup 0..MaxWorkers
    /\ max_workers_arg = max_workers
    /\ calls = 1
    /\ previous = [results |-> <<>>, completed |-> <<>>]
    /\ pc = "call"
    /\ fs = <<>>
    /\ popped = 0
    /\ results = <<>>
    /\ exc = NoExc
    /\ raised = NoExc
    /\ work_queue = <<>>
    /\ threads = <<>>
    /\ idle_semaphore = 0
    /\ shutdown_flag = FALSE
    /\ expired = FALSE
    /\ shutdowns = <<>>
    /\ completed = <<>>

\* ---- the caller thread ----------------------------------------------------
\* The default written as len(args): the number of sequences.
DefaultWorkers_NumArgs(seqs) == Len(seqs)

\* run_parallel's default pool size: min(len(arg) for arg in args).
DefaultWorkers(seqs) == ZipLen(seqs)

\* The size test written as `max_workers < 0`.
ValidWorkers_NonNegative(n) == n >= 0

\* ThreadPoolExecutor.__init__ rejects a pool size that is not positive.
ValidWorkers(n) == n > 0

\* run_parallel sizes the pool and executor() creates it.
Enter ==
    /\ pc = "call"
    /\ LET mw == IF max_workers = NoneVal THEN DefaultWorkers(args) ELSE max_workers
       IN /\ max_workers' = mw
          /\ IF ValidWorkers(mw)
             THEN /\ pc' = IF mode = "map" /\ ZipLen(args) = 0 THEN "await" ELSE "submit"
                  /\ raised' = raised
             ELSE /\ pc' = "raised"
                  /\ raised' = ValueError
    /\ UNCHANGED <<mode, args, timeout, max_workers_arg, calls, previous, fs, popped, results, exc, work_queue,
                   threads, idle_semaphore, shutdown_flag, expired, shutdowns,
                   completed>>

\* _adjust_thread_count without the max_workers test.
AdjustThreadCount_Unbounded(sem, thr, maxw) ==
    IF sem > 0 THEN [sem |-> sem - 1, threads |-> thr]
    ELSE [sem |-> sem, threads |-> Append(thr, [pc |-> "get", item |-> Sentinel])]

\* ThreadPoolExecutor._adjust_thread_count: reuse an idle worker if the
\* semaphore says there is one, else start a thread while below max_workers.
AdjustThreadCount(sem, thr, maxw) ==
    IF sem > 0 THEN [sem |-> sem - 1, threads |-> thr]
    ELSE IF Len(thr) < maxw
         THEN [sem |-> sem, threads |-> Append(thr, [pc |-> "get", item |-> Sentinel])]
         ELSE [sem |-> sem, threads |-> thr]

\* One ThreadPoolExecutor.submit of the next tuple of zip(*args).
Submit ==
    /\ pc = "submit"
    /\ Len(fs) < ZipLen(args)
    /\ LET i == Len(fs) + 1
           adj == AdjustThreadCount(idle_semaphore, threads, max_workers)
       IN /\ fs' = Append(fs, NewFuture)
          /\ work_queue' = Append(work_queue,
                 [future |-> i, a |-> args[1][i], b |-> args[2][i]])
          /\ idle_semaphore' = adj.sem
          /\ threads' = adj.threads
          /\ pc' = IF mode = "map" /\ i = ZipLen(args) THEN "await" ELSE "submit"
    /\ UNCHANGED <<mode, args, timeout, max_workers_arg, calls, previous, max_workers, popped, results, exc,
                   raised, shutdown_flag, expired, shutdowns, completed>>

\* The pop without the reverse: the futures come out last-submitted first.
PopIndex_NoReverse(k, total) == total - k

\* The result iterator reverses fs and pops from the end: after k pops the
\* reversed list has total - k entries, and its last entry is the future
\* submitted at position total + 1 - (total - k).
PopIndex(k, total) == LET last == total - k IN total + 1 - last

\* Future.result() called without the timeout.
WaitOutcome_NoTimeout(f, hasTimeout, isExpired) ==
    IF f.state = "FINISHED" /\ f.exception = NoExc THEN "result"
    ELSE IF f.state = "FINISHED" THEN "exception"
    ELSE IF f.state = "CANCELLED" THEN "cancelled"
    ELSE "blocked"

\* What the caller's wait on future f yields: Future.result(timeout).
\* A finished future is returned at once, whatever the clock says; an
\* unfinished one times out once the deadline has passed.
WaitOutcome(f, hasTimeout, isExpired) ==
    IF Succeeded(f) THEN "result"
    ELSE IF Failed(f) THEN "exception"
    ELSE IF f.state = "CANCELLED" THEN "cancelled"
    ELSE IF hasTimeout /\ isExpired THEN "timeout"
    ELSE "blocked"

\* Results taken as the futures complete (as_completed) instead of in order.
Awaited_AsCompleted ==
    IF popped < Len(completed) THEN completed[popped + 1]
    ELSE CHOOSE u \in DOMAIN fs : fs[u].state # "FINISHED"

\* The future the result iterator is waiting on.
Awaited == PopIndex(popped, Len(fs))

\* The iterator's cleanup when it is left by an exception: the popped
\* future and every future still in fs are cancelled.
CancelRest(futs, from) ==
    [u \in DOMAIN futs |-> IF u >= from THEN Cancel(futs[u]) ELSE futs[u]]

\* list(results) takes the next result.
AwaitResult ==
    /\ pc = "await"
    /\ popped < Len(fs)
    /\ WaitOutcome(fs[Awaited], timeout, expired) = "result"
    /\ results' = Append(results, fs[Awaited].result)
    /\ popped' = popped + 1
    /\ UNCHANGED <<mode, args, timeout, max_workers_arg, calls, previous, max_workers, pc, fs, exc, raised,
                   work_queue, threads, idle_semaphore, shutdown_flag, expired,
                   shutdowns, completed>>

\* list(results) meets the exception of the awaited future.
AwaitRaise ==
    /\ pc = "await"
    /\ popped < Len(fs)
    /\ WaitOutcome(fs[Awaited], timeout, expired) = "exception"
    /\ exc' = fs[Awaited].exception
    /\ fs' = CancelRest(fs, popped + 1)
    /\ popped' = popped + 1
    /\ pc' = "unwind"
    /\ UNCHANGED <<mode, args, timeout, max_workers_arg, calls, previous, max_workers, results, raised,
                   work_queue, threads, idle_semaphore, shutdown_flag, expired,
                   shutdowns, completed>>

\* list(results) times out on the awaited future.
AwaitTimeout ==
    /\ pc = "await"
    /\ popped < Len(fs)
    /\ WaitOutcome(fs[Awaited], timeout, expired) = "timeout"
    /\ exc' = TimeoutError
    /\ fs' = CancelRest(fs, popped + 1)
    /\ popped' = popped + 1
    /\ pc' = "unwind"
    /\ UNCHANGED <<mode, args, timeout, max_workers_arg, calls, previous, max_workers, results, raised,
                   work_queue, threads, idle_semaphore, shutdown_flag, expired,
                   shutdowns, completed>>

\* The block of a bare executor() scope raises.
BlockRaise ==
    /\ mode = "scope"
    /\ pc = "submit"
    /\ exc' = BlockError
    /\ pc' = "unwind"
    /\ UNCHANGED <<mode, args, timeout, max_workers_arg, calls, previous, max_workers, fs, popped, results,
                   raised, work_queue, threads, idle_semaphore, shutdown_flag,
                   expired, shutdowns, completed>>

\* The with-block has ended without an exception.
BlockEnded ==
    \/ mode = "map" /\ pc = "await" /\ popped = Len(fs)
    \/ mode = "scope" /\ pc = "submit" /\ Len(fs) = ZipLen(args)

\* executor()'s else branch, first half of shutdown(): flag the pool and
\* wake the workers; the join follows.
ExitNormal ==
    /\ BlockEnded
    /\ shutdown_flag' = TRUE
    /\ work_queue' = Append(work_queue, Sentinel)
    /\ shutdowns' = Append(shutdowns, [kind |-> "graceful", unfinished |-> Unfinished])
    /\ pc' = "join"
    /\ UNCHANGED <<mode, args, timeout, max_workers_arg, calls, previous, max_workers, fs, popped, results, exc,
                   raised, threads, idle_semaphore, expired, completed>>

\* shutdown(wait=False) on the normal exit: no join.
JoinGuard_NoWait == TRUE

\* shutdown(wait=True) joins every thread of the pool.
JoinGuard == \A t \in Threads : threads[t].pc = "exited"

JoinThreads ==
    /\ pc = "join"
    /\ JoinGuard
    /\ pc' = "returned"
    /\ UNCHANGED <<mode, args, timeout, max_workers_arg, calls, previous, max_workers, fs, popped, results, exc,
                   raised, work_queue, threads, idle_semaphore, shutdown_flag,
                   expired, shutdowns, completed>>

\* shutdown(cancel_futures=True) drains the queue and cancels what it finds.
Drained(futs, q) ==
    [u \in DOMAIN futs |->
        IF \E k \in DOMAIN q : q[k].future = u THEN Cancel(futs[u]) ELSE futs[u]]

\* shutdown(wait=True, ...) on the error exit: joins every thread.
AbortGuard_Wait == \A t \in Threads : threads[t].pc = "exited"

\* shutdown(wait=False, ...) returns without joining.
AbortGuard == TRUE

\* `raise RuntimeError(...) from e` in place of the bare `raise`.
Reraise_Wrapped(e) == [type |-> "RuntimeError", a |-> e.a, b |-> e.b]

\* The exception executor() lets out of its except branch: a bare `raise`.
Reraise(e) == e

\* The except branch without its `raise`: the error is swallowed and the
\* with-statement ends as if the block had returned.
ExitAbnormal_NoRaise ==
    /\ pc = "unwind"
    /\ shutdown_flag' = TRUE
    /\ fs' = Drained(fs, work_queue)
    /\ work_queue' = <<Sentinel>>
    /\ shutdowns' = Append(shutdowns, [kind |-> "abort", unfinished |-> Unfinished])
    /\ pc' = "returned"
    /\ UNCHANGED <<mode, args, timeout, max_workers_arg, calls, previous, max_workers, popped, results, exc,
                   raised, threads, idle_semaphore, expired, completed>>

\* executor()'s except branch: shutdown(wait=False, cancel_futures=True),
\* then re-raise.
ExitAbnormal ==
    /\ pc = "unwind"
    /\ AbortGuard
    /\ shutdown_flag' = TRUE
    /\ fs' = Drained(fs, work_queue)
    /\ work_queue' = <<Sentinel>>
    /\ shutdowns' = Append(shutdowns, [kind |-> "abort", unfinished |-> Unfinished])
    /\ raised' = Reraise(exc)
    /\ pc' = "raised"
    /\ UNCHANGED <<mode, args, timeout, max_workers_arg, calls, previous, max_workers, popped, results, exc,
                   threads, idle_semaphore, expired, completed>>

\* executor()'s except branch when the shutdown it calls raises while it
\* cancels a drained work item (a done-callback of that future, attached by
\* the block, raising a BaseException): the shutdown is left half-way, no
\* wake-up item is queued, and since nothing in the except branch catches
\* it, the new error leaves the scope in place of the one being handled.
ExitAbnormalFails ==
    /\ mode = "scope"
    /\ pc = "unwind"
    /\ work_queue # <<>>
    /\ shutdown_flag' = TRUE
    /\ fs' = [fs EXCEPT ![Head(work_queue).future] = Cancel(@)]
    /\ work_queue' = Tail(work_queue)
    /\ shutdowns' = Append(shutdowns, [kind |-> "abort", unfinished |-> Unfinished])
    /\ raised' = SecondaryError
    /\ pc' = "raised"
    /\ UNCHANGED <<mode, args, timeout, max_workers_arg, calls, previous,
                   max_workers, popped, results, exc, threads, idle_semaphore,
                   expired, completed>>

\* The clock passes end_time (set when Executor.map is called).
Expire ==
    /\ timeout
    /\ ~expired
    /\ pc \in {"submit", "await"}
    /\ expired' = TRUE
    /\ UNCHANGED <<mode, args, timeout, max_workers_arg, calls, previous, max_workers, pc, fs, popped, results,
                   exc, raised, work_queue, threads, idle_semaphore,
                   shutdown_flag, shutdowns, completed>>

\* The caller, having got its results, makes the same call once more: a
\* fresh pool, fresh futures, a fresh deadline.
CallAgain ==
    /\ mode = "map"
    /\ pc = "returned"
    /\ calls < MaxCalls
    /\ calls' = calls + 1
    /\ previous' = [results |-> results, completed |-> completed]
    /\ max_workers' = max_workers_arg
    /\ pc' = "call"
    /\ fs' = <<>>
    /\ popped' = 0
    /\ results' = <<>>
    /\ exc' = NoExc
    /\ raised' = NoExc
    /\ work_queue' = <<>>
    /\ threads' = <<>>
    /\ idle_semaphore' = 0
    /\ shutdown_flag' = FALSE
    /\ expired' = FALSE
    /\ shutdowns' = <<>>
    /\ completed' = <<>>
    /\ UNCHANGED <<mode, args, timeout, max_workers_arg>>

\* ---- the worker threads ---------------------------------------------------
\* A worker that keeps the wake-up item for itself when it exits.
Get_NoRepost(t) ==
    /\ threads[t].pc = "get"
    /\ work_queue # <<>>
    /\ LET item == Head(work_queue)
       IN /\ work_queue' = Tail(work_queue)
          /\ threads' = IF item # Sentinel
                         THEN [threads EXCEPT ![t] = [pc |-> "run", item |-> item]]
                         ELSE IF shutdown_flag
                              THEN [threads EXCEPT ![t].pc = "exited"]
                              ELSE threads
    /\ UNCHANGED <<mode, args, timeout, max_workers_arg, calls, previous,
                   max_workers, pc, fs, popped, results, exc, raised,
                   idle_semaphore, shutdown_flag, expired, shutdowns, completed>>

\* _worker: work_queue.get(block=True).
Get(t) ==
    /\ threads[t].pc = "get"
    /\ work_queue # <<>>
    /\ LET item == Head(work_queue)
       IN IF item # Sentinel
          THEN /\ threads' = [threads EXCEPT ![t] = [pc |-> "run", item |-> item]]
               /\ work_queue' = Tail(work_queue)
          ELSE IF shutdown_flag
               THEN /\ threads' = [threads EXCEPT ![t].pc = "exited"]
                    /\ work_queue' = Append(Tail(work_queue), Sentinel)
               ELSE /\ threads' = threads
                    /\ work_queue' = Tail(work_queue)
    /\ UNCHANGED <<mode, args, timeout, max_workers_arg, calls, previous, max_workers, pc, fs, popped, results,
                   exc, raised, idle_semaphore, shutdown_flag, expired,
                   shutdowns, completed>>

\* _WorkItem.run, first line: Future.set_running_or_notify_cancel().  A
\* cancelled work item is dropped and the worker reports itself idle.
Run(t) ==
    /\ threads[t].pc = "run"
    /\ LET u == threads[t].item.future
       IN IF fs[u].state = "CANCELLED"
          THEN /\ threads' = [threads EXCEPT ![t] = [pc |-> "get", item |-> Sentinel]]
               /\ idle_semaphore' = idle_semaphore + 1
               /\ fs' = fs
          ELSE /\ threads' = [threads EXCEPT ![t].pc = "fn"]
               /\ idle_semaphore' = idle_semaphore
               /\ fs' = [fs EXCEPT ![u].state = "RUNNING"]
    /\ UNCHANGED <<mode, args, timeout, max_workers_arg, calls, previous, max_workers, pc, popped, results, exc,
                   raised, work_queue, shutdown_flag, expired, shutdowns,
                   completed>>

\* A worker that puts a failed work item back on the queue to run it again.
Finish_Retry(t) ==
    /\ threads[t].pc = "fn"
    /\ LET item == threads[t].item
           o == fn(item.a, item.b)
       IN /\ fs' = [fs EXCEPT ![item.future] = SetOutcome(@, o)]
          /\ completed' = Append(completed, item.future)
          /\ work_queue' = IF o.ok THEN work_queue ELSE Append(work_queue, item)
    /\ threads' = [threads EXCEPT ![t] = [pc |-> "get", item |-> Sentinel]]
    /\ idle_semaphore' = idle_semaphore + 1
    /\ UNCHANGED <<mode, args, timeout, max_workers_arg, calls, previous,
                   max_workers, pc, popped, results, exc, raised,
                   shutdown_flag, expired, shutdowns>>

\* _WorkItem.run, the rest: fn returns or raises, the future is completed,
\* and the worker reports itself idle.
Finish(t) ==
    /\ threads[t].pc = "fn"
    /\ LET item == threads[t].item
           o == fn(item.a, item.b)
       IN /\ fs' = [fs EXCEPT ![item.future] = SetOutcome(@, o)]
          /\ completed' = Append(completed, item.future)
    /\ threads' = [threads EXCEPT ![t] = [pc |-> "get", item |-> Sentinel]]
    /\ idle_semaphore' = idle_semaphore + 1
    /\ UNCHANGED <<mode, args, timeout, max_workers_arg, calls, previous, max_workers, pc, popped, results, exc,
                   raised, work_queue, shutdown_flag, expired, shutdowns>>

\* ---- the system -----------------------------------------------------------
CallerNext ==
    \/ Enter
    \/ Submit
    \/ AwaitResult
    \/ AwaitRaise
    \/ AwaitTimeout
    \/ BlockRaise
    \/ ExitNormal
    \/ JoinThreads
    \/ ExitAbnormal

WorkerNext ==
    \/ \E t \in Threads : Get(t)
    \/ \E t \in Threads : Run(t)
    \/ \E t \in Threads : Finish(t)

Next == CallerNext \/ WorkerNext \/ Expire \/ CallAgain

Spec == Init /\ [][Next]_vars

\* The caller thread always gets to run; nothing is assumed of the workers,
\* whose fn calls may take for ever.
CallerFairSpec == Spec /\ WF_vars(CallerNext)

\* The module with a block that makes the cancellation of its futures fail.
FaultSpec == Init /\ [][Next \/ ExitAbnormalFails]_vars

\* Every thread the pool can have: max_workers of them, explicit or defaulted.
WorkerIds == 1..(MaxLen + MaxWorkers)

\* Fair scheduling of the caller and of every worker thread, every call of
\* fn coming to an end.
FairSpec ==
    /\ Spec
    /\ WF_vars(CallerNext)
    /\ \A t \in WorkerIds :
          WF_vars(t \in Threads /\ (Get(t) \/ Run(t) \/ Finish(t)))

\* ---- properties -----------------------------------------------------------
Kinds == [k \in DOMAIN shutdowns |-> shutdowns[k].kind]
Ended == pc \in {"returned", "raised"}
Aborted == shutdowns # <<>> /\ shutdowns[1].kind = "abort"
Units == 1..ZipLen(args)
BadUnits == {i \in Units : ~fn(args[1][i], args[2][i]).ok}
UnitError(i) == fn(args[1][i], args[2][i]).exception

\* The caller is waiting in list(results) and cannot go on.
Waiting ==
    /\ mode = "map"
    /\ pc = "await"
    /\ popped < Len(fs)
    /\ WaitOutcome(fs[Awaited], timeout, expired) = "blocked"

\* C1: a run_parallel call on non-empty sequences of equal length L that
\* succeeds returns L results, result[i] being fn of the i-th elements, in
\* input order whatever the order in which the units ran and ended.
C1_InputOrder ==
    (mode = "map" /\ pc = "returned"
        /\ Len(args[1]) = Len(args[2]) /\ Len(args[1]) >= 1)
    => /\ Len(results) = Len(args[1])
       /\ \A i \in 1..Len(args[1]) : results[i] = fn(args[1][i], args[2][i]).result

\* A successful call whose second unit ended before its first.
C1_Witness ==
    /\ mode = "map" /\ pc = "returned"
    /\ Len(args[1]) = 2 /\ Len(args[2]) = 2
    /\ completed = <<2, 1>>
    /\ results = <<fn(args[1][1], args[2][1]).result, fn(args[1][2], args[2][2]).result>>

\* C2 as stated: once some unit has raised, run_parallel is never left
\* waiting on a unit that is still pending or running.
C2_Original == ~(Waiting /\ \E u \in Futures : Failed(fs[u]))

\* C2 amended: run_parallel is left waiting only while the unit it waits on,
\* the lowest-index one not yet collected, is unfinished; every failure that
\* has happened meanwhile belongs to a unit of higher index, and a failure of
\* the awaited unit itself is raised at once, other units still running.
C2_WaitsInOrder ==
    /\ Waiting => \A u \in Futures : Failed(fs[u]) => u > Awaited
    /\ (mode = "map" /\ pc = "await" /\ popped < Len(fs) /\ Failed(fs[Awaited]))
       => /\ ENABLED AwaitRaise
          /\ \A u \in Futures : u < Awaited => Succeeded(fs[u])

\* A failure was raised to the caller while another unit was still running.
C2_Witness ==
    /\ mode = "map" /\ pc = "raised"
    /\ raised.type = "FnError"
    /\ Running # {}

\* C3: when the block of the executor scope raises, the exit never blocks:
\* with the caller scheduled and no worker ever finishing, the scope still
\* exits, by the abort shutdown alone, and re-raises the very same error.
C3_AbortDoesNotBlock ==
    /\ (pc = "unwind") ~> (pc = "raised")
    /\ [][pc = "unwind" /\ pc' # "unwind"
            => /\ pc' = "raised"
               /\ raised' = exc /\ exc # NoExc
               /\ threads' = threads
               /\ Kinds' = Append(Kinds, "abort")]_vars

\* The scope was left by the error of its block, a unit still running.
C3_Witness ==
    /\ pc = "raised" /\ raised = BlockError
    /\ Aborted
    /\ Running # {}

\* C4: a normal exit of the executor scope returns only when every unit
\* submitted to the pool has finished; none was cancelled or left behind,
\* and every worker has exited.
C4_GracefulWaits ==
    pc = "returned"
    => /\ Kinds = <<"graceful">>
       /\ Len(fs) = ZipLen(args)
       /\ \A u \in Futures : Done(fs[u])
       /\ Live = {}
       /\ \A k \in DOMAIN work_queue : work_queue[k] = Sentinel

\* A normal exit that began while units were pending or running.
C4_Witness ==
    /\ pc = "returned"
    /\ Cardinality(shutdowns[1].unfinished) = 2

\* C5: a run_parallel call that created a pool shuts it down exactly once,
\* gracefully iff it returns results, by abort iff it raises.
C5_OneShutdown ==
    mode = "map"
    => /\ Len(shutdowns) <= 1
       /\ (pc = "returned" => Kinds = <<"graceful">>)
       /\ (pc = "raised" /\ raised # ValueError => Kinds = <<"abort">>)
       /\ (Kinds = <<"graceful">> => pc \in {"join", "returned"} /\ exc = NoExc)
       /\ (Kinds = <<"abort">>
              => pc = "raised" /\ raised = exc
                 /\ raised.type \in {"FnError", "TimeoutError"})

\* A call ended by a timeout, its pool shut down once, by abort.
C5_Witness ==
    /\ mode = "map" /\ pc = "raised"
    /\ raised = TimeoutError
    /\ Kinds = <<"abort">>

\* C6: if fn raises for exactly one input tuple and no timeout expires,
\* run_parallel raises that very error and returns no result list.
C6_SameError ==
    (mode = "map" /\ Ended /\ raised # ValueError
        /\ Cardinality(BadUnits) = 1 /\ ~expired)
    => /\ pc = "raised"
       /\ \A i \in BadUnits : raised = UnitError(i)

\* A two-unit call whose only failing unit is the second.
C6_Witness ==
    /\ mode = "map" /\ pc = "raised" /\ ~timeout
    /\ BadUnits = {2}
    /\ raised = UnitError(2)
    /\ results = <<fn(args[1][1], args[2][1]).result>>

\* The unit whose fn raised first in time.
FirstFailed == LET k == CHOOSE j \in DOMAIN completed :
                          /\ Failed(fs[completed[j]])
                          /\ \A h \in 1..(j - 1) : ~Failed(fs[completed[h]])
               IN completed[k]

\* C7 as stated: the failure propagated is the one raised first in time.
C7_Original ==
    (mode = "map" /\ pc = "raised" /\ raised.type = "FnError")
    => raised = fs[FirstFailed].exception

\* C7 amended: when several units fail, the failure propagated is that of
\* the failing unit of lowest input index, whichever unit raised first in
\* time.
C7_LowestIndex ==
    (mode = "map" /\ pc = "raised" /\ raised.type = "FnError")
    => \E i \in BadUnits : /\ raised = UnitError(i)
                           /\ \A j \in BadUnits : i <= j

\* Both units failed, the second one first, and the first one's error is
\* the one raised.
C7_Witness ==
    /\ mode = "map" /\ pc = "raised"
    /\ completed = <<2, 1>>
    /\ BadUnits = {1, 2}
    /\ raised = UnitError(1)

C9_AtMostN ==
    /\ [](pc # "call" /\ raised # ValueError
          => /\ Cardinality(Running) <= max_workers
             /\ Len(threads) <= max_workers)
    /\ [][\A u \in Futures \cap DOMAIN fs' :
            (fs[u].state # "RUNNING" /\ fs'[u].state = "RUNNING")
            => Cardinality(Running) < max_workers]_vars

\* All N workers execute a unit while another unit waits in the queue.
C9_Witness ==
    /\ pc # "call"
    /\ Cardinality(Running) = max_workers
    /\ Len(fs) > max_workers
    /\ \E k \in DOMAIN work_queue : work_queue[k] # Sentinel
                                    /\ fs[work_queue[k].future].state = "PENDING"

\* C10: after an abort shutdown no unit that had not started executing
\* ever starts, and a unit that had started is left alone until its fn ends.
C10_NoStartAfterAbort ==
    [][Aborted
       => \A u \in Futures :
            /\ fs'[u].state = "RUNNING" => fs[u].state = "RUNNING"
            /\ fs[u].state = "RUNNING" => fs'[u].state \in {"RUNNING", "FINISHED"}]_vars

\* C11 as stated: when a run_parallel call has returned or raised, no worker
\* of its pool is live and no unit is executing.
C11_Original == (mode = "map" /\ Ended) => Live = {} /\ Running = {}

\* C11 amended: when a run_parallel call has returned, no worker of its pool
\* is live and no unit is executing; when it has raised after a failure or
\* a timeout, the pool is shut down and no unit is left waiting to start,
\* but the units then executing may still be running on live workers.
C11_ReleasedOnReturn ==
    mode = "map"
    => /\ pc = "returned"
          => /\ Live = {}
             /\ Running = {}
             /\ shutdown_flag
       /\ (pc = "raised" /\ raised # ValueError)
          => /\ shutdown_flag
             /\ work_queue = <<Sentinel>>
             /\ \A u \in Futures : fs[u].state # "PENDING"
             /\ \A u \in Running : \E t \in Live : /\ threads[t].pc = "fn"
                                                   /\ threads[t].item.future = u

\* A call has raised while two of its workers are still executing units.
C11_Witness ==
    /\ mode = "map" /\ pc = "raised"
    /\ Cardinality({t \in Live : threads[t].pc = "fn"}) = 2

\* C13: a pool size that is not positive is rejected when the pool is
\* created, before the block is entered: nothing is submitted, no thread is
\* started, no shutdown is made.
C13_ConfigError ==
    /\ (pc # "call" /\ max_workers <= 0)
       => /\ pc = "raised" /\ raised = ValueError
          /\ fs = <<>> /\ threads = <<>> /\ work_queue = <<>>
          /\ shutdowns = <<>> /\ completed = <<>> /\ ~shutdown_flag
    /\ raised = ValueError => max_workers <= 0

\* A scope asked for zero workers, with two units to run, has raised.
C13_Witness ==
    /\ mode = "scope" /\ max_workers_arg = 0
    /\ ZipLen(args) = 2
    /\ pc = "raised" /\ raised = ValueError

\* C14: with max_workers unset run_parallel returns the list of fn over
\* zip(*args), for sequences of any lengths, empty ones included, having
\* run exactly that many units (fn raising for none, no timeout expiring).
C14_ZipSemantics ==
    (mode = "map" /\ max_workers_arg = NoneVal /\ Ended
        /\ BadUnits = {} /\ ~expired)
    => /\ pc = "returned"
       /\ results = [i \in Units |-> fn(args[1][i], args[2][i]).result]
       /\ Len(completed) = ZipLen(args)

\* Work items waiting in the queue, and threads waiting for one.
Queued == {k \in DOMAIN work_queue : work_queue[k] # Sentinel}
Idle == {t \in Threads : threads[t].pc = "get"}

\* C15: with max_workers unset the pool is sized to the length of the
\* shortest sequence, and a queued unit always has a worker free to take
\* it: it never waits for another unit to end.
C15_OneWorkerPerUnit ==
    (mode = "map" /\ max_workers_arg = NoneVal /\ pc # "call")
    => /\ max_workers = ZipLen(args)
       /\ Cardinality(Queued) <= Cardinality(Idle)

\* An unsized call of two units, both executing at once.
C15_Witness ==
    /\ mode = "map" /\ max_workers_arg = NoneVal
    /\ ZipLen(args) = 2
    /\ Cardinality(Running) = 2 /\ Len(threads) = 2

\* C16: a second run_parallel call with the same fn, inputs and max_workers
\* returns the same list as the first, however the workers interleaved.
C16_SameResults ==
    (mode = "map" /\ calls >= 2 /\ pc = "returned") => results = previous.results

\* Two calls returned the same two results, their units ending in
\* opposite orders.
C16_Witness ==
    /\ mode = "map" /\ calls = 2 /\ pc = "returned"
    /\ Len(results) = 2 /\ results = previous.results
    /\ previous.completed = <<1, 2>> /\ completed = <<2, 1>>

\* How many times the work item of future u exists, and how many times fn
\* was invoked on it.
Invoked(u) ==
    Cardinality({t \in Threads : threads[t].pc = "fn" /\ threads[t].item.future = u})
    + Cardinality({k \in DOMAIN completed : completed[k] = u})
Held(u) ==
    Cardinality({k \in DOMAIN work_queue : work_queue[k].future = u})
    + Cardinality({t \in Threads : threads[t].pc = "run" /\ threads[t].item.future = u})
    + Invoked(u)

\* C17: in a run_parallel call each zipped tuple is submitted once, fn is
\* invoked on it at most once, and exactly once if the call returns;
\* nothing is submitted or run again after a failure or a timeout.
C17_NoRetry ==
    mode = "map"
    => /\ Len(fs) <= ZipLen(args)
       /\ \A u \in Futures : Held(u) <= 1 /\ Invoked(u) <= 1
       /\ pc = "returned" => /\ Len(fs) = ZipLen(args)
                             /\ \A u \in Units : Invoked(u) = 1
       /\ \A u \in Futures : fs[u].state = "CANCELLED" => Invoked(u) = 0
       /\ pc = "raised" => \A u \in Futures : Failed(fs[u]) => Held(u) = 1

\* A call has raised the error of its first unit; the second was cancelled
\* and never run.
C17_Witness ==
    /\ mode = "map" /\ pc = "raised"
    /\ Len(fs) = 2 /\ fs[2].state = "CANCELLED"
    /\ raised = UnitError(1)
    /\ Invoked(1) = 1 /\ Invoked(2) = 0

\* C18: results are taken strictly in input order: the error run_parallel
\* raises is that of the unit it was waiting on, every unit before it has
\* succeeded and been collected, so it is the lowest-index failing unit.
C18_InOrder ==
    mode = "map"
    => /\ pc = "await" => /\ Len(results) = popped
                          /\ \A j \in 1..popped : Succeeded(fs[j])
       /\ exc.type = "FnError"
          => /\ popped >= 1
             /\ exc = UnitError(popped)
             /\ results = [j \in 1..(popped - 1) |-> fn(args[1][j], args[2][j]).result]
             /\ \A j \in 1..(popped - 1) : Succeeded(fs[j])
             /\ \A j \in BadUnits : popped <= j

\* The second unit failed first, yet its error was raised only after the
\* first unit had succeeded.
C18_Witness ==
    /\ mode = "map" /\ pc = "raised"
    /\ completed = <<2, 1>>
    /\ raised = UnitError(2)
    /\ Succeeded(fs[1])

\* C19: with no timeout, at least one unit, max_workers >= 1 (or unset) and
\* fn always ending, a run_parallel call returns or raises under fair
\* scheduling, and when it returns every worker of its pool has exited.
C19_Terminates ==
    /\ (/\ mode = "map" /\ pc = "call" /\ ~timeout
        /\ ZipLen(args) >= 1 /\ max_workers_arg # 0) ~> Ended
    /\ [](mode = "map" /\ pc = "returned"
          => \A t \in Threads : threads[t].pc = "exited")

\* A call of two units on one worker, no timeout, has returned, its worker
\* gone.
C19_Witness ==
    /\ mode = "map" /\ pc = "returned" /\ ~timeout
    /\ max_workers_arg = 1 /\ ZipLen(args) = 2
    /\ Len(threads) = 1 /\ threads[1].pc = "exited"
    /\ Len(completed) = 2

\* C12: an error raised by the cancellation step of the abort shutdown is
\* swallowed: what the caller receives is the error that made the block
\* end, never the secondary one.
C12_PrimaryKept ==
    (pc = "raised" /\ exc # NoExc) => raised = exc

====
